---- MODULE Spec2Model ----
(***************************************************************************)
(* The BN254 base field Fq of halo2curves (src/src/bn256/fq.rs) and the    *)
(* field test-suite (src/src/tests/field.rs).                              *)
(*                                                                         *)
(* A u64 is held as four 16-bit digits, least significant first, so that   *)
(* every intermediate of the word arithmetic stays below 2^31.  A byte     *)
(* buffer is a sequence of values 0..255.  An Fq is a sequence of four     *)
(* u64 limbs, least significant first, exactly as `Fq(pub [u64; 4])`.      *)
(***************************************************************************)
EXTENDS Integers, Sequences, FiniteSets, TLC

(***************************************************************************)
(* Words                                                                   *)
(***************************************************************************)

\* A u64 literal, written as the four 16-bit groups of the source's hex
\* literal, most significant group first: 0x3c208c16d87cfd47 is
\* u64(\H3c20, \H8c16, \Hd87c, \Hfd47).
u64(h3, h2, h1, h0) == << h0, h1, h2, h3 >>

ZeroWord == << 0, 0, 0, 0 >>
MaxWord == << 65535, 65535, 65535, 65535 >>

\* u64::from_le_bytes of bytes s[k+1..k+8]
from_le_bytes(s, k) ==
  << s[k + 1] + 256 * s[k + 2], s[k + 3] + 256 * s[k + 4],
     s[k + 5] + 256 * s[k + 6], s[k + 7] + 256 * s[k + 8] >>

\* u64::to_le_bytes
to_le_bytes(w) ==
  << w[1] % 256, w[1] \div 256, w[2] % 256, w[2] \div 256,
     w[3] % 256, w[3] \div 256, w[4] % 256, w[4] \div 256 >>

\* Carry propagation over byte columns cols[i..]: each column may hold any
\* value below 2^31; the result is one byte per column (the last carry out
\* is dropped, columns are sized so that it is zero).
RECURSIVE Carry(_, _, _, _)
Carry(cols, i, cin, acc) ==
  IF i > Len(cols) THEN acc
  ELSE LET t == cols[i] + cin
       IN Carry(cols, i + 1, t \div 256, Append(acc, t % 256))

\* The byte columns of a + carry + b * c for u64 a, b, c, carry (16 columns).
MacColumns(a, b, c, carry) ==
  LET c0 == c[1] % 256
      c1 == c[1] \div 256
      c2 == c[2] % 256
      c3 == c[2] \div 256
      c4 == c[3] % 256
      c5 == c[3] \div 256
      c6 == c[4] % 256
      c7 == c[4] \div 256
  IN << a[1] + carry[1] + b[1] * c0,
        b[1] * c1,
        a[2] + carry[2] + b[1] * c2 + b[2] * c0,
        b[1] * c3 + b[2] * c1,
        a[3] + carry[3] + b[1] * c4 + b[2] * c2 + b[3] * c0,
        b[1] * c5 + b[2] * c3 + b[3] * c1,
        a[4] + carry[4] + b[1] * c6 + b[2] * c4 + b[3] * c2 + b[4] * c0,
        b[1] * c7 + b[2] * c5 + b[3] * c3 + b[4] * c1,
        b[2] * c6 + b[3] * c4 + b[4] * c2,
        b[2] * c7 + b[3] * c5 + b[4] * c3,
        b[3] * c6 + b[4] * c4,
        b[3] * c7 + b[4] * c5,
        b[4] * c6,
        b[4] * c7,
        0,
        0 >>

\* The value of a let-binding, computed before its continuation runs: S is
\* always the one-element set {F(u) : u \in {e}}, "let u = e; F(u)".
Force(S) == CHOOSE x \in S : TRUE

\* arithmetic::mac: a + (b * c) + carry, as (low word, high word).
mac(a, b, c, carry) ==
  Force({ << from_le_bytes(r, 0), from_le_bytes(r, 8) >>
          : r \in {Carry(MacColumns(a, b, c, carry), 1, 0, << >>)} })

\* u64::wrapping_mul: the low word of a * b.
wrapping_mul(a, b) == mac(ZeroWord, a, b, ZeroWord)[1]

\* arithmetic::adc: a + b + carry, as (sum word, carry word).
adc(a, b, carry) ==
  LET s1 == a[1] + b[1] + carry[1]
      s2 == a[2] + b[2] + carry[2] + s1 \div 65536
      s3 == a[3] + b[3] + carry[3] + s2 \div 65536
      s4 == a[4] + b[4] + carry[4] + s3 \div 65536
  IN << << s1 % 65536, s2 % 65536, s3 % 65536, s4 % 65536 >>,
        << s4 \div 65536, 0, 0, 0 >> >>

\* arithmetic::sbb: a - (b + (borrow >> 63)), as (difference word, borrow
\* word); the borrow word is 0xffff_ffff_ffff_ffff on underflow, else 0.
sbb(a, b, borrow) ==
  LET d1 == a[1] - b[1] - (borrow[4] \div 32768)
      d2 == a[2] - b[2] - (IF d1 < 0 THEN 1 ELSE 0)
      d3 == a[3] - b[3] - (IF d2 < 0 THEN 1 ELSE 0)
      d4 == a[4] - b[4] - (IF d3 < 0 THEN 1 ELSE 0)
  IN << << d1 % 65536, d2 % 65536, d3 % 65536, d4 % 65536 >>,
        IF d4 < 0 THEN MaxWord ELSE ZeroWord >>

\* a & mask, for the two masks the arithmetic produces (all ones, zero).
and_mask(a, mask) == IF mask = MaxWord THEN a ELSE ZeroWord

(***************************************************************************)
(* Constants of fq.rs                                                      *)
(***************************************************************************)

\* MODULUS with its lowest hex group mistyped.
MODULUS_typo ==
  << u64(\H3c20, \H8c16, \Hd87c, \Hfd48),
     u64(\H9781, \H6a91, \H6871, \Hca8d),
     u64(\Hb850, \H45b6, \H8181, \H585d),
     u64(\H3064, \H4e72, \He131, \Ha029) >>

MODULUS ==
  << u64(\H3c20, \H8c16, \Hd87c, \Hfd47),
     u64(\H9781, \H6a91, \H6871, \Hca8d),
     u64(\Hb850, \H45b6, \H8181, \H585d),
     u64(\H3064, \H4e72, \He131, \Ha029) >>

\* INV with its lowest hex group mistyped.
INV_typo == u64(\H87d2, \H0782, \He486, \H638b)

INV == u64(\H87d2, \H0782, \He486, \H6389)

\* R with its lowest hex group mistyped.
R_typo ==
  << u64(\Hd35d, \H438d, \Hc58f, \H0d9e),
     u64(\H0a78, \Heb28, \Hf5c7, \H0b3d),
     u64(\H666e, \Ha36f, \H7879, \H462c),
     u64(\H0e0a, \H77c1, \H9a07, \Hdf2f) >>

R ==
  << u64(\Hd35d, \H438d, \Hc58f, \H0d9d),
     u64(\H0a78, \Heb28, \Hf5c7, \H0b3d),
     u64(\H666e, \Ha36f, \H7879, \H462c),
     u64(\H0e0a, \H77c1, \H9a07, \Hdf2f) >>

R2 ==
  << u64(\Hf32c, \Hfc5b, \H538a, \Hfa89),
     u64(\Hb5e7, \H1911, \Hd445, \H01fb),
     u64(\H47ab, \H1eff, \H0a41, \H7ff6),
     u64(\H06d8, \H9f71, \Hcab8, \H351f) >>

R3 ==
  << u64(\Hb1cd, \H6daf, \Hda15, \H30df),
     u64(\H62f2, \H10e6, \Ha728, \H3db6),
     u64(\Hef7f, \H0b0c, \H0ada, \H0afb),
     u64(\H20fd, \H6e90, \H2d59, \H2544) >>

\* NEGATIVE_ONE with its lowest hex group mistyped.
NEGATIVE_ONE_typo ==
  << u64(\H68c3, \H4889, \H12ed, \Hefab),
     u64(\H8d08, \H7f68, \H72aa, \Hbf4f),
     u64(\H51e1, \Ha247, \H0908, \H1231),
     u64(\H2259, \Hd6b1, \H4729, \Hc0fa) >>

NEGATIVE_ONE ==
  << u64(\H68c3, \H4889, \H12ed, \Hefaa),
     u64(\H8d08, \H7f68, \H72aa, \Hbf4f),
     u64(\H51e1, \Ha247, \H0908, \H1231),
     u64(\H2259, \Hd6b1, \H4729, \Hc0fa) >>

(***************************************************************************)
(* Field arithmetic: field_arithmetic!(Fq, MODULUS, INV, sparse)           *)
(***************************************************************************)

zero == << ZeroWord, ZeroWord, ZeroWord, ZeroWord >>
one == R

\* The sbb chain over limbs j..4 of x - y: (difference limbs, last borrow).
RECURSIVE sbb_limbs(_, _, _, _, _)
sbb_limbs(x, y, j, borrow, out) ==
  IF j > 4 THEN << out, borrow >>
  ELSE Force({ sbb_limbs(x, y, j + 1, s[2], Append(out, s[1]))
               : s \in {sbb(x[j], y[j], borrow)} })

\* The adc chain over limbs j..4 of x + y: (sum limbs, last carry).
RECURSIVE adc_limbs(_, _, _, _, _)
adc_limbs(x, y, j, carry, out) ==
  IF j > 4 THEN << out, carry >>
  ELSE Force({ adc_limbs(x, y, j + 1, s[2], Append(out, s[1]))
               : s \in {adc(x[j], y[j], carry)} })

\* Each limb of x under the mask.
and_limbs(x, mask) ==
  << and_mask(x[1], mask), and_mask(x[2], mask),
     and_mask(x[3], mask), and_mask(x[4], mask) >>

\* Subtract with borrow, then add the modulus back under the borrow mask.
sub(lhs, rhs) ==
  Force({ adc_limbs(s[1], and_limbs(MODULUS, s[2]), 1, ZeroWord, << >>)[1]
          : s \in {sbb_limbs(lhs, rhs, 1, ZeroWord, << >>)} })

\* Add with carry, then one conditional subtraction of the modulus.
add(lhs, rhs) ==
  Force({ sub(s[1], MODULUS) : s \in {adc_limbs(lhs, rhs, 1, ZeroWord, << >>)} })

\* double leaving out the conditional subtraction of the modulus.
double_unreduced(self) == adc_limbs(self, self, 1, ZeroWord, << >>)[1]

double(self) == add(self, self)

\* neg without the mask: MODULUS - a, which is MODULUS itself for zero.
neg_unmasked(self) == sbb_limbs(MODULUS, self, 1, ZeroWord, << >>)[1]

\* MODULUS - a through the sbb chain, masked so that negating zero is zero.
neg(self) ==
  Force({ and_limbs(s[1], IF self = zero THEN ZeroWord ELSE MaxWord)
          : s \in {sbb_limbs(MODULUS, self, 1, ZeroWord, << >>)} })

\* The mac chain over limbs j..4: acc + xi * y, as five limbs (the last one
\* is the final carry).
RECURSIVE mac_limbs(_, _, _, _, _, _)
mac_limbs(acc, xi, y, j, carry, out) ==
  IF j > 4 THEN Append(out, carry)
  ELSE Force({ mac_limbs(acc, xi, y, j + 1, m[2], Append(out, m[1]))
               : m \in {mac(acc[j], xi, y[j], carry)} })

\* Rows i..4 of the schoolbook product: w is the four-limb window the next
\* row adds into, lo the limbs already final.
RECURSIVE product_rows(_, _, _, _, _)
product_rows(x, y, i, w, lo) ==
  IF i > 4 THEN lo \o w
  ELSE Force({ product_rows(x, y, i + 1, SubSeq(r, 2, 5), Append(lo, r[1]))
               : r \in {mac_limbs(w, x[i], y, 1, ZeroWord, << >>)} })

\* The full double-width (8-limb) schoolbook product of two 4-limb values.
wide_product(x, y) == product_rows(x, y, 1, zero, << >>)

\* One pass of the Montgomery reduction over the window w (four limbs), the
\* next limb hi and the carry c2 left by the previous pass:
\*   k = w0 * INV;  (_, c) = mac(w0, k, M0, 0);  (r1, c) = mac(w1, k, M1, c);
\*   (r2, c) = mac(w2, k, M2, c);  (r3, c) = mac(w3, k, M3, c);
\*   (r4, c2) = adc(hi, c2, c)
\* as (the next window, c2).
reduce_pass(w, hi, c2) ==
  Force({ Force({ << << m[2], m[3], m[4], s[1] >>, s[2] >>
                  : s \in {adc(hi, c2, m[5])} })
          : m \in {mac_limbs(w, wrapping_mul(w[1], INV), MODULUS, 1, ZeroWord, << >>)} })

\* Passes i..4, then the conditional subtraction of the modulus.
RECURSIVE reduce_passes(_, _, _, _)
reduce_passes(r, i, w, c2) ==
  IF i > 4 THEN sub(w, MODULUS)
  ELSE Force({ reduce_passes(r, i + 1, p[1], p[2])
               : p \in {reduce_pass(w, r[4 + i], c2)} })

\* Montgomery reduction of an 8-limb value r: four passes, each cancelling
\* the current low limb with k = limb * INV and folding k * MODULUS into the
\* accumulator; one conditional subtraction of the modulus ends it.
montgomery_reduce(r) ==
  Force({ reduce_passes(v, 1, SubSeq(v, 1, 4), ZeroWord) : v \in {r} })

\* The four passes of the reduction alone: the value the final conditional
\* subtraction is applied to.
reduced_before_subtraction(r) ==
  LET p1 == reduce_pass(SubSeq(r, 1, 4), r[5], ZeroWord)
      p2 == reduce_pass(p1[1], r[6], p1[2])
      p3 == reduce_pass(p2[1], r[7], p2[2])
      p4 == reduce_pass(p3[1], r[8], p3[2])
  IN p4[1]

mul(lhs, rhs) ==
  Force({ montgomery_reduce(wide_product(l, r)) : l \in {lhs}, r \in {rhs} })

square(self) == mul(self, self)

(***************************************************************************)
(* Exponentiation (ff::Field::pow), inversion and square root              *)
(***************************************************************************)

\* subtle::ConditionallySelectable: b when choice = 1, a when choice = 0.
conditional_select(a, b, choice) == IF choice = 1 THEN b ELSE a

\* Bit k (0 = least significant) of a little-endian array of u64 limbs.
RECURSIVE Pow2(_)
Pow2(k) == IF k = 0 THEN 1 ELSE 2 * Pow2(k - 1)

ExpBit(exp, k) == (exp[(k \div 64) + 1][((k % 64) \div 16) + 1] \div Pow2(k % 16)) % 2

\* One iteration of pow's loop, for exponent bit `bit`:
\*   res = res.square(); tmp = res * self; res.conditional_assign(&tmp, bit)
pow_step(res, self, bit) ==
  Force({ conditional_select(sq, mul(sq, self), bit) : sq \in {square(res)} })

\* pow's loop over exponent bits hi-1 down to lo, most significant first.
\* The iterations are split in halves; the value after the upper half is
\* bound before the lower half starts.
RECURSIVE pow_loop(_, _, _, _, _)
pow_loop(res, self, exp, lo, hi) ==
  IF hi = lo THEN res
  ELSE IF hi = lo + 1 THEN pow_step(res, self, ExpBit(exp, lo))
  ELSE Force({ pow_loop(upper, self, exp, lo, (lo + hi) \div 2)
               : upper \in {pow_loop(res, self, exp, (lo + hi) \div 2, hi)} })

\* Every bit of every limb of the exponent is visited.
pow(self, exp) ==
  Force({ pow_loop(one, s, exp, 0, 64 * Len(exp)) : s \in {self} })

\* subtle::CtOption::new(value, is_some)
CtOption(value, is_some) == [value |-> value, is_some |-> is_some]

\* The exponent of invert: MODULUS - 2, limb 0 lowered by two.
INVERT_EXP ==
  << sbb(MODULUS[1], u64(0, 0, 0, 2), ZeroWord)[1], MODULUS[2], MODULUS[3], MODULUS[4] >>

\* invert's result from the ladder's output tmp: absent exactly for zero.
invert_result(self, tmp) == CtOption(tmp, self # zero)

invert(self) == Force({ invert_result(self, tmp) : tmp \in {pow(self, INVERT_EXP)} })

SQRT_EXP_typo ==
  << u64(\H4f08, \H2305, \Hb61f, \H3f53),
     u64(\H65e0, \H5aa4, \H5a1c, \H72a3),
     u64(\H6e14, \H116d, \Ha060, \H5617),
     u64(\H0c19, \H139c, \Hb84c, \H680a) >>

\* The exponent literal of Fq::sqrt.
SQRT_EXP ==
  << u64(\H4f08, \H2305, \Hb61f, \H3f52),
     u64(\H65e0, \H5aa4, \H5a1c, \H72a3),
     u64(\H6e14, \H116d, \Ha060, \H5617),
     u64(\H0c19, \H139c, \Hb84c, \H680a) >>

\* CtOption::new(tmp, tmp.square().ct_eq(self))
sqrt_result(self, tmp) == CtOption(tmp, square(tmp) = self)

sqrt(self) == Force({ sqrt_result(self, tmp) : tmp \in {pow(self, SQRT_EXP)} })

\* extend_field_legendre!: the exponent (MODULUS - 1) / 2 ...
sub_one(m) ==
  LET s0 == sbb(m[1], u64(0, 0, 0, 1), ZeroWord)
      s1 == sbb(m[2], ZeroWord, s0[2])
      s2 == sbb(m[3], ZeroWord, s1[2])
      s3 == sbb(m[4], ZeroWord, s2[2])
  IN << s0[1], s1[1], s2[1], s3[1] >>

\* a 4-limb value shifted right by one bit
shr1(m) ==
  LET Digit(k) == m[(k \div 4) + 1][(k % 4) + 1]
      Sh(k) == Digit(k) \div 2 + (IF k < 15 THEN (Digit(k + 1) % 2) * 32768 ELSE 0)
  IN [l \in 1..4 |-> [j \in 1..4 |-> Sh(4 * (l - 1) + (j - 1))]]

LEGENDRE_EXP == shr1(sub_one(MODULUS))

\* ... and the classification of its result: 1, -1 or 0.
legendre_of(r) == IF r = zero THEN 0 ELSE IF r = one THEN 1 ELSE -1

legendre(self) == legendre_of(pow(self, LEGENDRE_EXP))

ct_quadratic_non_residue(self) == pow(self, LEGENDRE_EXP) = neg(one)

(***************************************************************************)
(* Codecs                                                                  *)
(***************************************************************************)

\* Fq([u64; 4]) from 32 little-endian bytes, limb by limb.
limbs_of_bytes(s) ==
  << from_le_bytes(s, 0), from_le_bytes(s, 8), from_le_bytes(s, 16), from_le_bytes(s, 24) >>

bytes_of_limbs(l) ==
  to_le_bytes(l[1]) \o to_le_bytes(l[2]) \o to_le_bytes(l[3]) \o to_le_bytes(l[4])

\* from_repr with the borrow chain stopped one limb short.
from_repr_short(repr) ==
  LET tmp == limbs_of_bytes(repr)
      b0 == sbb(tmp[1], MODULUS[1], ZeroWord)[2]
      b1 == sbb(tmp[2], MODULUS[2], b0)[2]
      b2 == sbb(tmp[3], MODULUS[3], b1)[2]
  IN CtOption(mul(tmp, R2), (b2[1] % 256) % 2 = 1)

\* from_repr leaving out the conversion into Montgomery form.
from_repr_plain(repr) ==
  LET tmp == limbs_of_bytes(repr)
      b0 == sbb(tmp[1], MODULUS[1], ZeroWord)[2]
      b1 == sbb(tmp[2], MODULUS[2], b0)[2]
      b2 == sbb(tmp[3], MODULUS[3], b1)[2]
      b3 == sbb(tmp[4], MODULUS[4], b2)[2]
  IN CtOption(tmp, (b3[1] % 256) % 2 = 1)

\* PrimeField::from_repr
from_repr(repr) ==
  LET tmp == limbs_of_bytes(repr)
      b0 == sbb(tmp[1], MODULUS[1], ZeroWord)[2]
      b1 == sbb(tmp[2], MODULUS[2], b0)[2]
      b2 == sbb(tmp[3], MODULUS[3], b1)[2]
      b3 == sbb(tmp[4], MODULUS[4], b2)[2]
      \* is_some = (borrow as u8) & 1
      is_some == (b3[1] % 256) % 2
  IN CtOption(mul(tmp, R2), is_some = 1)

\* From<Fq> for [u64; 4]: one reduction pass takes the value out of
\* Montgomery form.
into_limbs(self) ==
  montgomery_reduce(<< self[1], self[2], self[3], self[4],
                       ZeroWord, ZeroWord, ZeroWord, ZeroWord >>)

\* PrimeField::to_repr
to_repr(self) == bytes_of_limbs(into_limbs(self))

\* Fq::from_raw: the Montgomery form of a canonical 4-limb value.
from_raw(val) == mul(val, R2)

\* The less-than-modulus predicate: the final borrow of limbs - MODULUS.
is_less_than_modulus(limbs) ==
  LET b0 == sbb(limbs[1], MODULUS[1], ZeroWord)[2]
      b1 == sbb(limbs[2], MODULUS[2], b0)[2]
      b2 == sbb(limbs[3], MODULUS[3], b1)[2]
      b3 == sbb(limbs[4], MODULUS[4], b2)[2]
  IN b3[4] \div 32768 = 1

\* SerdeObject::to_raw_bytes: the limbs as they are, no conversion.
to_raw_bytes(self) == bytes_of_limbs(self)

\* SerdeObject::from_raw_bytes: the limbs as they are, accepted when they
\* are below the modulus.
from_raw_bytes(bytes) ==
  LET elt == limbs_of_bytes(bytes)
  IN CtOption(elt, Len(bytes) = 32 /\ is_less_than_modulus(elt))

\* from_u512: the low half times R^2 plus the high half times R^3.
from_u512(limbs) ==
  LET d0 == << limbs[1], limbs[2], limbs[3], limbs[4] >>
      d1 == << limbs[5], limbs[6], limbs[7], limbs[8] >>
  IN add(mul(d0, R2), mul(d1, R3))

\* from_uniform_bytes reading the eight limbs most significant first.
from_uniform_bytes_swapped(bytes) ==
  from_u512(<< from_le_bytes(bytes, 32), from_le_bytes(bytes, 40),
               from_le_bytes(bytes, 48), from_le_bytes(bytes, 56),
               from_le_bytes(bytes, 0), from_le_bytes(bytes, 8),
               from_le_bytes(bytes, 16), from_le_bytes(bytes, 24) >>)

\* FromUniformBytes<64>::from_uniform_bytes
from_uniform_bytes(bytes) ==
  from_u512(<< from_le_bytes(bytes, 0), from_le_bytes(bytes, 8),
               from_le_bytes(bytes, 16), from_le_bytes(bytes, 24),
               from_le_bytes(bytes, 32), from_le_bytes(bytes, 40),
               from_le_bytes(bytes, 48), from_le_bytes(bytes, 56) >>)

\* Named constants built with from_raw.
MULTIPLICATIVE_GENERATOR == from_raw(<< u64(0, 0, 0, 3), ZeroWord, ZeroWord, ZeroWord >>)

TWO_INV ==
  from_raw(<< u64(\H9e10, \H460b, \H6c3e, \H7ea4),
              u64(\Hcbc0, \Hb548, \Hb438, \He546),
              u64(\Hdc28, \H22db, \H40c0, \Hac2e),
              u64(\H1832, \H2739, \H7098, \Hd014) >>)

\* `0x30644e72...d87cfd46`, q - 1
ROOT_OF_UNITY ==
  from_raw(<< u64(\H3c20, \H8c16, \Hd87c, \Hfd46),
              u64(\H9781, \H6a91, \H6871, \Hca8d),
              u64(\Hb850, \H45b6, \H8181, \H585d),
              u64(\H3064, \H4e72, \He131, \Ha029) >>)

ROOT_OF_UNITY_INV ==
  from_raw(<< u64(\H3c20, \H8c16, \Hd87c, \Hfd46),
              u64(\H9781, \H6a91, \H6871, \Hca8d),
              u64(\Hb850, \H45b6, \H8181, \H585d),
              u64(\H3064, \H4e72, \He131, \Ha029) >>)

\* `0x9`
DELTA == from_raw(<< u64(0, 0, 0, 9), ZeroWord, ZeroWord, ZeroWord >>)

\* ZETA with its lowest hex group mistyped.
ZETA_typo ==
  from_raw(<< u64(\He4bd, \H44e5, \H607c, \Hfd49),
              u64(\Hc28f, \H069f, \Hbb96, \H6e3d),
              u64(\H5e6d, \Hd9e7, \He0ac, \Hccb0),
              u64(\H3064, \H4e72, \He131, \Ha029) >>)

ZETA ==
  from_raw(<< u64(\He4bd, \H44e5, \H607c, \Hfd48),
              u64(\Hc28f, \H069f, \Hbb96, \H6e3d),
              u64(\H5e6d, \Hd9e7, \He0ac, \Hccb0),
              u64(\H3064, \H4e72, \He131, \Ha029) >>)

\* PrimeField::S, the declared 2-adicity exponent
S == 0

\* impl_from_u64!(Fq, R2): Fq([val, 0, 0, 0]) * R2, for val below 2^16
from_u64(val) == mul(<< u64(0, 0, 0, val), ZeroWord, ZeroWord, ZeroWord >>, R2)

\* The one-limb exponent [1 << S]
one_shl_S == << u64(0, 0, 0, Pow2(S)) >>

(***************************************************************************)
(* Reference arithmetic on plain integers, written digit by digit and      *)
(* independent of the limb code above.  A reference integer is a sequence  *)
(* of 16-bit groups, most significant first, as MODULUS_STR spells q.      *)
(***************************************************************************)

MODULUS_STR ==
  << \H3064, \H4e72, \He131, \Ha029, \Hb850, \H45b6, \H8181, \H585d,
     \H9781, \H6a91, \H6871, \Hca8d, \H3c20, \H8c16, \Hd87c, \Hfd47 >>

\* The integer held by four limbs / by a little-endian byte buffer.
GroupsOfLimbs(x) == [k \in 1..16 |-> x[4 - ((k - 1) \div 4)][4 - ((k - 1) % 4)]]

GroupsOfBytes(s) ==
  [k \in 1..(Len(s) \div 2) |-> 256 * s[Len(s) - 2 * (k - 1)] + s[Len(s) - 2 * (k - 1) - 1]]

BytesOfGroups(g) ==
  [i \in 1..(2 * Len(g)) |->
     IF i % 2 = 1 THEN g[Len(g) - ((i - 1) \div 2)] % 256
     ELSE g[Len(g) - ((i - 1) \div 2)] \div 256]

\* u < v for two reference integers of the same length.
RECURSIVE LexLess(_, _, _)
LexLess(u, v, k) ==
  IF k > Len(u) THEN FALSE
  ELSE IF u[k] # v[k] THEN u[k] < v[k]
  ELSE LexLess(u, v, k + 1)

BelowModulus(g) == LexLess(g, MODULUS_STR, 1)

\* 2 * r + bit and r - q, for 0 <= r < q (both stay within 16 groups).
RECURSIVE RefDouble(_, _, _, _)
RefDouble(r, k, cin, acc) ==
  IF k = 0 THEN acc
  ELSE LET v == 2 * r[k] + cin
       IN RefDouble(r, k - 1, v \div 65536, << v % 65536 >> \o acc)

RECURSIVE RefMinus(_, _, _, _, _)
RefMinus(r, m, k, bin, acc) ==
  IF k = 0 THEN acc
  ELSE LET v == r[k] - m[k] - bin
       IN RefMinus(r, m, k - 1, IF v < 0 THEN 1 ELSE 0, << v % 65536 >> \o acc)

RefStep(r, bit) ==
  LET v == RefDouble(r, 16, bit, << >>)
  IN IF BelowModulus(v) THEN v ELSE RefMinus(v, MODULUS_STR, 16, 0, << >>)

\* Bit j (0 = least significant) of a little-endian byte buffer.
ByteBit(s, j) == (s[(j \div 8) + 1] \div Pow2(j % 8)) % 2

\* The integer of the buffer's bits hi-1..lo, folded into r modulo q by
\* shift and subtract, most significant bit first.
RECURSIVE RefReduce(_, _, _, _)
RefReduce(r, s, lo, hi) ==
  IF hi = lo THEN r
  ELSE IF hi = lo + 1 THEN RefStep(r, ByteBit(s, lo))
  ELSE Force({ RefReduce(upper, s, lo, (lo + hi) \div 2)
               : upper \in {RefReduce(r, s, (lo + hi) \div 2, hi)} })

\* Column k of the product of two little-endian byte buffers: the sum of
\* x[i] * y[k + 1 - i] over the i that both buffers have.
RECURSIVE RefColumn(_, _, _, _, _)
RefColumn(x, y, k, i, acc) ==
  IF i > Len(x) \/ i > k THEN acc
  ELSE RefColumn(x, y, k, i + 1,
                 acc + (IF k + 1 - i <= Len(y) THEN x[i] * y[k + 1 - i] ELSE 0))

\* The product of the integers of x and y, as Len(x) + Len(y) bytes.
RefTimes(x, y) ==
  Carry([k \in 1..(Len(x) + Len(y)) |-> RefColumn(x, y, k, 1, 0)], 1, 0, << >>)

\* (the little-endian integer of s) mod q, as 32 little-endian bytes.
RefMod(s) == BytesOfGroups(RefReduce([k \in 1..16 |-> 0], s, 0, 8 * Len(s)))

(***************************************************************************)
(* Inputs                                                                  *)
(***************************************************************************)

Zero32 == [i \in 1..32 |-> 0]
Ones32 == [i \in 1..32 |-> 255]
ModulusBytes == BytesOfGroups(MODULUS_STR)

\* s + k * 256^off for a byte buffer s and a small (possibly negative) k,
\* wrapping at the buffer's width.
AddAt(s, off, k) ==
  Carry([i \in 1..Len(s) |-> s[i] + (IF i = off + 1 THEN k ELSE 0)], 1, 0, << >>)

\* How far around each boundary value the byte inputs spread.
Spread == 2

Signs == {-1, 1}

\* 32-byte inputs: around 0, around 2^256 - 1, and around q in each limb.
ReprInputs ==
  {AddAt(Zero32, 0, k) : k \in 0..Spread}
    \cup {AddAt(Ones32, 0, -k) : k \in 0..Spread}
    \cup {AddAt(ModulusBytes, 8 * j, sg * k) : j \in 0..3, k \in 0..Spread, sg \in Signs}

\* 256-bit halves of the 64-byte inputs.
HalfInputs ==
  {AddAt(Zero32, 0, k) : k \in 0..Spread}
    \cup {AddAt(Ones32, 0, -k) : k \in 0..Spread}
    \cup {AddAt(ModulusBytes, 0, sg * k) : k \in 0..Spread, sg \in Signs}

WideInputs == {lo \o hi : lo \in HalfInputs, hi \in HalfInputs}

Zero64 == Zero32 \o Zero32
Ones64 == Ones32 \o Ones32

(***************************************************************************)
(* State                                                                   *)
(***************************************************************************)

VARIABLES
  op,    \* the last operation (or test) that ran, "load" before any
  n,     \* how many operations have run
  a,     \* the current element: the `self` of the next operation
  b,     \* the right-hand operand of the last binary operation
  c,     \* test-suite samples
  d,
  hist,  \* the elements held so far, oldest first; the last one is a
  opt,   \* the CtOption returned by the last fallible operation
  buf,   \* the byte buffer being decoded or last encoded
  t      \* the temporaries of the last test body

vars == << op, n, a, b, c, d, hist, opt, buf, t >>

\* What opt holds when the last operation returned no CtOption.
NoResult == CtOption(zero, FALSE)

\* The element an operation was applied to, and the one before it.
self_of_last == hist[Len(hist) - 1]

(***************************************************************************)
(* Spec: an element built up by a sequence of field operations             *)
(***************************************************************************)

\* The longest sequence of operations applied to one element.
MaxOps == 2

\* Where elements come from: an accepted from_repr (of 0 and of 1),
\* from_uniform_bytes, and the named constants.
Sources ==
  {from_repr(r).value : r \in {s \in {Zero32, AddAt(Zero32, 0, 1)} : from_repr(s).is_some}}
    \cup {from_uniform_bytes(Ones64)}
    \cup {NEGATIVE_ONE, MULTIPLICATIVE_GENERATOR}

\* Right-hand operands of the binary operations.
Operands == {one, from_uniform_bytes(Ones64)}

\* Exponents handed to pow.
PowExps == {<< u64(0, 0, 0, 5) >>}

Init ==
  /\ op = "load"
  /\ n = 0
  /\ a \in Sources
  /\ b = zero
  /\ c = zero
  /\ d = zero
  /\ hist = << a >>
  /\ opt = NoResult
  /\ buf = << >>
  /\ t = << >>

\* An operation may run while the sequence is short of MaxOps; one that runs
\* the exponentiation ladder (pow, invert, sqrt) keeps one operation in hand
\* after it, so that its value is put to use.
CanApply == n < MaxOps
CanLadder == n + 1 < MaxOps

\* The current element is replaced by r, the result of operation name.
Returns(name, rhs, r) ==
  /\ op' = name
  /\ n' = n + 1
  /\ a' = r
  /\ b' = rhs
  /\ hist' = Append(hist, r)
  /\ opt' = NoResult
  /\ UNCHANGED << c, d, buf, t >>

\* A fallible operation returned r: its value replaces the current element
\* when it is present (the caller unwraps it), and nothing changes otherwise.
ReturnsOption(name, r) ==
  /\ op' = name
  /\ n' = n + 1
  /\ a' = (IF r.is_some THEN r.value ELSE a)
  /\ hist' = Append(hist, IF r.is_some THEN r.value ELSE a)
  /\ opt' = r
  /\ UNCHANGED << b, c, d, buf, t >>

Add == CanApply /\ \E rhs \in Operands : \E r \in {add(a, rhs)} : Returns("add", rhs, r)
Sub == CanApply /\ \E rhs \in Operands : \E r \in {sub(a, rhs)} : Returns("sub", rhs, r)
Mul == CanApply /\ \E rhs \in Operands : \E r \in {mul(a, rhs)} : Returns("mul", rhs, r)
Neg == CanApply /\ \E r \in {neg(a)} : Returns("neg", zero, r)
Double == CanApply /\ \E r \in {double(a)} : Returns("double", zero, r)
Square == CanApply /\ \E r \in {square(a)} : Returns("square", zero, r)
Pow == CanLadder /\ \E e \in PowExps : \E r \in {pow(a, e)} : Returns("pow", zero, r)
Invert == CanLadder /\ \E r \in {invert(a)} : ReturnsOption("invert", r)
Sqrt == CanLadder /\ \E r \in {sqrt(a)} : ReturnsOption("sqrt", r)

Next == Add \/ Sub \/ Mul \/ Neg \/ Double \/ Square \/ Pow \/ Invert \/ Sqrt

Spec == Init /\ [][Next]_vars

\* C3: every element held at any point of the sequence (the sources and
\* every value an operation returned) has limbs whose integer is below q,
\* q being read from the modulus string.
RangeInvariant == \A k \in 1..Len(hist) : BelowModulus(GroupsOfLimbs(hist[k]))

\* A sum that reached q exactly, and that the conditional subtraction took
\* to zero: NEGATIVE_ONE + ONE.
RangeWitness ==
  /\ op = "add"
  /\ self_of_last = NEGATIVE_ONE
  /\ b = one
  /\ a = zero

\* C4: invert returns no value exactly for the additive identity, and for
\* every other element a value whose product with the element is ONE.
InvertContract ==
  op = "invert" =>
    /\ ~opt.is_some <=> self_of_last = zero
    /\ opt.is_some => mul(self_of_last, opt.value) = one

\* An inverse that is not the element itself.
InvertWitness == op = "invert" /\ opt.is_some /\ opt.value # self_of_last

(***************************************************************************)
(* SpecCodec: one decoding or one codec test iteration per behaviour       *)
(***************************************************************************)

\* How many of the sample elements the tests draw from.
NumElems == 4

\* The elements the test iterations draw (F::random stands for any of them).
Samples ==
  << zero, TWO_INV, MULTIPLICATIVE_GENERATOR, NEGATIVE_ONE,
     from_uniform_bytes(Ones64), one >>

Elems == {Samples[k] : k \in 1..NumElems}

Start ==
  /\ op = "start"
  /\ n = 0
  /\ a = zero
  /\ b = zero
  /\ c = zero
  /\ d = zero
  /\ hist = << >>
  /\ opt = NoResult
  /\ buf = << >>
  /\ t = << >>

\* Fq::from_repr on a 32-byte buffer.
FromRepr ==
  /\ op = "start"
  /\ \E r \in ReprInputs :
       /\ op' = "from_repr"
       /\ n' = n + 1
       /\ buf' = r
       /\ opt' = from_repr(r)
       /\ UNCHANGED << a, b, c, d, hist, t >>

\* test_conversion, one iteration:
\*   let bytes = a.to_repr(); let b = from_repr(bytes).unwrap(); a == b
TestConversion ==
  /\ op = "start"
  /\ \E x \in Elems : \E bytes \in {to_repr(x)} :
       /\ op' = "test_conversion"
       /\ n' = n + 1
       /\ a' = x
       /\ buf' = bytes
       /\ opt' = from_repr(bytes)
       /\ UNCHANGED << b, c, d, hist, t >>

\* test_serialization_check, one iteration: rand_word is any four limbs, a
\* the struct holding them as they are, t the less-than-modulus predicate.
TestSerializationCheck ==
  /\ op = "start"
  /\ \E r \in ReprInputs : \E rand_word \in {limbs_of_bytes(r)} :
       /\ op' = "test_serialization_check"
       /\ n' = n + 1
       /\ a' = rand_word
       /\ buf' = to_raw_bytes(rand_word)
       /\ t' = is_less_than_modulus(rand_word)
       /\ opt' = from_raw_bytes(to_raw_bytes(rand_word))
       /\ UNCHANGED << b, c, d, hist >>

\* random_serialization_test, one iteration:
\*   let bytes = a.to_raw_bytes(); let b = from_raw_bytes(&bytes).unwrap()
RandomSerializationTest ==
  /\ op = "start"
  /\ \E x \in Elems :
       /\ op' = "random_serialization_test"
       /\ n' = n + 1
       /\ a' = x
       /\ buf' = to_raw_bytes(x)
       /\ opt' = from_raw_bytes(to_raw_bytes(x))
       /\ UNCHANGED << b, c, d, hist, t >>

\* run_test_from_uniform_bytes, one iteration: e1 = from_uniform_bytes, and
\* e0 = big_to_fe(BigUint::from_bytes_le), the reduced integer decoded.
RunTestFromUniformBytes ==
  /\ op = "start"
  /\ \E w \in WideInputs :
       /\ op' = "run_test_from_uniform_bytes"
       /\ n' = n + 1
       /\ buf' = w
       /\ a' = from_uniform_bytes(w)
       /\ t' = from_repr(RefMod(w)).value
       /\ UNCHANGED << b, c, d, hist, opt >>

\* Limb values below q: the samples, and the in-range ones among the
\* boundary inputs (0, 1, 2, and q less one or two units of each limb).
InRangeLimbs ==
  Elems \cup {limbs_of_bytes(r) : r \in {i \in ReprInputs : BelowModulus(GroupsOfBytes(i))}}

\* Fq::mul on two in-range limb values.
MontgomeryMul ==
  /\ op = "start"
  /\ \E x \in InRangeLimbs, y \in InRangeLimbs :
       /\ op' = "mul"
       /\ n' = n + 1
       /\ a' = x
       /\ b' = y
       /\ c' = mul(x, y)
       /\ UNCHANGED << d, hist, opt, buf, t >>

NextCodec ==
  \/ FromRepr
  \/ TestConversion
  \/ TestSerializationCheck
  \/ RandomSerializationTest
  \/ RunTestFromUniformBytes
  \/ MontgomeryMul

SpecCodec == Start /\ [][NextCodec]_vars

\* C1: from_repr returns a value exactly when the little-endian integer of
\* the 32 bytes is below q (q read from the modulus string); q itself, and
\* everything above it up to the all-0xff buffer, is refused.
FromReprRange ==
  op = "from_repr" => (opt.is_some <=> BelowModulus(GroupsOfBytes(buf)))

\* The encoding of q itself, refused.
FromReprWitness == op = "from_repr" /\ buf = ModulusBytes /\ ~opt.is_some

\* C2: decoding the canonical encoding of an element gives the element
\* back, limb for limb.
ReprRoundTrip == op = "test_conversion" => opt = CtOption(a, TRUE)

\* The round trip of -1, whose encoding is q - 1.
ReprRoundTripWitness ==
  /\ op = "test_conversion"
  /\ a = NEGATIVE_ONE
  /\ buf = AddAt(ModulusBytes, 0, -1)
  /\ opt.is_some

\* C6: the raw decoding of four limbs succeeds exactly when the
\* less-than-modulus predicate holds of them, it returns those very limbs,
\* and it accepts exactly the buffers from_repr accepts; the raw encoding of
\* an element decodes to the element.
RawCodecAcceptance ==
  /\ op = "test_serialization_check" =>
       /\ opt.is_some <=> t
       /\ opt.is_some => opt.value = a /\ opt.value = limbs_of_bytes(buf)
       /\ opt.is_some <=> from_repr(buf).is_some
  /\ op = "random_serialization_test" => opt = CtOption(a, TRUE)

\* Limbs one limb-unit below q in the top limb: in range, returned as they
\* are.
RawCodecWitness ==
  /\ op = "test_serialization_check"
  /\ buf = AddAt(ModulusBytes, 24, -1)
  /\ opt.is_some
  /\ opt.value = limbs_of_bytes(buf)

\* C7: from_uniform_bytes is the element of (the 512-bit little-endian
\* integer of the input) mod q: its canonical encoding is that residue, it
\* is the element the reference decoding gives, and 64 zero bytes give the
\* additive identity.
UniformBytesReduction ==
  op = "run_test_from_uniform_bytes" =>
    /\ to_repr(a) = RefMod(buf)
    /\ a = t
    /\ buf = Zero64 => a = zero

\* Both halves above q: 64 bytes of 0xff.
UniformBytesWitness == op = "run_test_from_uniform_bytes" /\ buf = Ones64

(***************************************************************************)
(* SpecTests: one iteration of one arithmetic test per behaviour           *)
(***************************************************************************)

\* An iteration ran on samples x, y, z, w and left temporaries r.
Ran(name, x, y, z, w, r) ==
  /\ op' = name
  /\ n' = n + 1
  /\ a' = x
  /\ b' = y
  /\ c' = z
  /\ d' = w
  /\ t' = r
  /\ UNCHANGED << hist, buf >>

\* t0 = (a * b) * c, t1 = (a * c) * b, t2 = (b * c) * a
random_multiplication_tests ==
  /\ op = "start"
  /\ \E x \in Elems, y \in Elems, z \in Elems :
       /\ Ran("random_multiplication_tests", x, y, z, zero,
              [t0 |-> mul(mul(x, y), z), t1 |-> mul(mul(x, z), y),
               t2 |-> mul(mul(y, z), x)])
       /\ opt' = NoResult

\* t0 = (a + b) + c, t1 = (a + c) + b, t2 = (b + c) + a
random_addition_tests ==
  /\ op = "start"
  /\ \E x \in Elems, y \in Elems, z \in Elems :
       /\ Ran("random_addition_tests", x, y, z, zero,
              [t0 |-> add(add(x, y), z), t1 |-> add(add(x, z), y),
               t2 |-> add(add(y, z), x)])
       /\ opt' = NoResult

\* t0 = a - b, t1 = b - a, t2 = t0 + t1
random_subtraction_tests ==
  /\ op = "start"
  /\ \E x \in Elems, y \in Elems :
       /\ Ran("random_subtraction_tests", x, y, zero, zero,
              [t0 |-> sub(x, y), t1 |-> sub(y, x),
               t2 |-> add(sub(x, y), sub(y, x))])
       /\ opt' = NoResult

\* b = a.neg(); b += a
random_negation_tests ==
  /\ op = "start"
  /\ \E x \in Elems :
       /\ Ran("random_negation_tests", x, zero, zero, zero,
              [negb |-> neg(x), b |-> add(neg(x), x)])
       /\ opt' = NoResult

\* t0 = (a + b) * (c + d), t2 = a * c + b * c + a * d + b * d
random_expansion_tests ==
  /\ op = "start"
  /\ \E x \in Elems, y \in Elems, z \in Elems, w \in Elems :
       /\ Ran("random_expansion_tests", x, y, z, w,
              [t0 |-> mul(add(x, y), add(z, w)),
               t2 |-> add(add(add(mul(x, z), mul(y, z)), mul(x, w)), mul(y, w))])
       /\ opt' = NoResult

\* z = ZERO.neg(); ZERO.invert(); a * ZERO; a + ZERO
zero_tests ==
  /\ op = "start"
  /\ \E inv \in {invert(zero)} : \E x \in Elems :
       /\ Ran("zero_tests", x, zero, zero, zero,
              [z |-> neg(zero), product |-> mul(x, zero), sum |-> add(x, zero)])
       /\ opt' = inv

\* a.add_assign(&b) with b = a, against b.double()
random_doubling_tests ==
  /\ op = "start"
  /\ \E x \in Elems :
       /\ Ran("random_doubling_tests", x, x, zero, zero,
              [sum |-> add(x, x), dbl |-> double(x)])
       /\ opt' = NoResult

\* a.mul_assign(&b) with b = a, against b.square()
random_squaring_tests ==
  /\ op = "start"
  /\ \E x \in Elems :
       /\ Ran("random_squaring_tests", x, x, zero, zero,
              [product |-> mul(x, x), sq |-> square(x)])
       /\ opt' = NoResult

\* ONE.invert(); a * ONE against a; a + ONE (a second sample) against
\* copy + ONE
one_tests ==
  /\ op = "start"
  /\ \E inv \in {invert(one)} : \E x \in Elems, y \in Elems :
       /\ Ran("one_tests", x, y, zero, zero,
              [product |-> mul(x, one), sum |-> add(y, one)])
       /\ opt' = inv

\* is_quad_res_or_zero = elem.sqrt().is_some(),
\* is_quad_non_res = elem.ct_quadratic_non_residue()
test_quadratic_residue ==
  /\ op = "start"
  /\ \E elem \in Elems :
       /\ Ran("test_quadratic_residue", elem, zero, zero, zero,
              [is_quad_non_res |-> ct_quadratic_non_residue(elem)])
       /\ opt' = sqrt(elem)

\* test_sqrt, one iteration of its second loop:
\*   b = a.square(); b.legendre() == 1; b = b.sqrt().unwrap(); negb = -b
test_sqrt ==
  /\ op = "start"
  /\ \E x \in Elems : \E r \in {sqrt(square(x))} :
       /\ Ran("test_sqrt", x, square(x), zero, zero,
              [legendre |-> legendre(square(x)), negb |-> neg(r.value)])
       /\ opt' = r

\* The elements the Legendre test is put to: a sample, and the generator
\* times the square of a sample.
LegendreInputs(x) ==
  { [kind |-> "sample", elem |-> x],
    [kind |-> "generator_times_square",
     elem |-> mul(MULTIPLICATIVE_GENERATOR, square(x))] }

\* test_sqrt, one iteration of its first loop: a.legendre(), a.sqrt();
\* s is the power a^((q - 1) / 2) that legendre classifies.
test_legendre ==
  /\ op = "start"
  /\ \E x \in Elems : \E i \in LegendreInputs(x) :
       \E s \in {pow(i.elem, LEGENDRE_EXP)} :
         /\ Ran("test_legendre", i.elem, x, zero, zero,
                [kind |-> i.kind, s |-> s, legendre |-> legendre_of(s),
                 is_quad_non_res |-> (s = neg(one))])
         /\ opt' = sqrt(i.elem)

\* test_primefield_constants: the inverse of ROOT_OF_UNITY and 2 * TWO_INV
\* are always computed; ROOT_OF_UNITY^(2^S) and MULTIPLICATIVE_GENERATOR^(2^S)
\* are computed and compared only under `if S != 0` (powers is empty when
\* they are not).
test_primefield_constants ==
  /\ op = "start"
  /\ \E inv \in {invert(ROOT_OF_UNITY)} :
       /\ Ran("test_primefield_constants", ROOT_OF_UNITY, TWO_INV,
              MULTIPLICATIVE_GENERATOR, DELTA,
              [two_times_two_inv |-> mul(from_u64(2), TWO_INV),
               powers |->
                 IF S # 0
                 THEN << pow(ROOT_OF_UNITY, one_shl_S),
                         pow(MULTIPLICATIVE_GENERATOR, one_shl_S) >>
                 ELSE << >>])
       /\ opt' = inv

\* test_zeta: ZETA * ZETA * ZETA against ONE, ZETA * ZETA against ONE
test_zeta ==
  /\ op = "start"
  /\ Ran("test_zeta", ZETA, zero, zero, zero,
         [zeta3 |-> mul(mul(ZETA, ZETA), ZETA), zeta2 |-> mul(ZETA, ZETA)])
  /\ opt' = NoResult

NextTests ==
  \/ random_multiplication_tests
  \/ random_addition_tests
  \/ random_subtraction_tests
  \/ random_negation_tests
  \/ random_expansion_tests
  \/ random_doubling_tests
  \/ random_squaring_tests
  \/ zero_tests
  \/ one_tests
  \/ test_primefield_constants
  \/ test_zeta
  \/ test_legendre
  \/ test_quadratic_residue
  \/ test_sqrt

SpecTests == Start /\ [][NextTests]_vars

\* C5: sqrt returns a root exactly when the element is not a quadratic
\* non-residue (zero included, with root zero); a returned root squares to
\* the element; and the root returned for b * b is b or -b.
SqrtContract ==
  /\ op = "test_quadratic_residue" =>
       /\ opt.is_some <=> ~t.is_quad_non_res
       /\ opt.is_some => mul(opt.value, opt.value) = a
       /\ a = zero => opt = CtOption(zero, TRUE)
  /\ op = "test_sqrt" =>
       /\ opt.is_some
       /\ mul(opt.value, opt.value) = b
       /\ a = opt.value \/ a = t.negb

\* The root of 3 * 3, a square whose base is a non-residue.
SqrtWitness ==
  /\ op = "test_sqrt"
  /\ a = MULTIPLICATIVE_GENERATOR
  /\ opt.is_some
  /\ opt.value # zero

\* C8: addition and multiplication are commutative and associative, the
\* results being equal limb for limb:
\*   (a + b) + c = a + (b + c) = (b + c) + a,  a + b = b + a,
\*   (a * b) * c = a * (b * c) = (b * c) * a,  a * b = b * a.
CommutativeAssociative ==
  /\ op = "random_addition_tests" =>
       /\ t.t0 = add(a, add(b, c))
       /\ t.t0 = t.t2
       /\ t.t0 = t.t1
       /\ add(a, b) = add(b, a)
  /\ op = "random_multiplication_tests" =>
       /\ t.t0 = mul(a, mul(b, c))
       /\ t.t0 = t.t2
       /\ t.t0 = t.t1
       /\ mul(a, b) = mul(b, a)

\* Three different non-zero factors.
CommutativeAssociativeWitness ==
  /\ op = "random_multiplication_tests"
  /\ a = TWO_INV
  /\ b = MULTIPLICATIVE_GENERATOR
  /\ c = NEGATIVE_ONE
  /\ t.t0 # zero

\* C9: (a + b) * (c + d) = a * c + b * c + a * d + b * d, limb for limb.
Distributive == op = "random_expansion_tests" => t.t0 = t.t2

\* Two sums that both wrap past q.
DistributiveWitness ==
  /\ op = "random_expansion_tests"
  /\ a = NEGATIVE_ONE
  /\ b = MULTIPLICATIVE_GENERATOR
  /\ c = NEGATIVE_ONE
  /\ d = TWO_INV
  /\ t.t0 # zero

\* C10: a + (-a) is zero, negating ZERO gives ZERO (every limb zero, not the
\* modulus), and (a - b) + (b - a) is zero.
AdditiveInverse ==
  /\ op = "random_negation_tests" => t.b = zero
  /\ op = "zero_tests" => t.z = zero /\ t.z # MODULUS
  /\ op = "random_subtraction_tests" => t.t2 = zero

\* A difference that borrows: 0 - 1/2.
AdditiveInverseWitness ==
  /\ op = "random_subtraction_tests"
  /\ a = zero
  /\ b = TWO_INV
  /\ t.t0 # zero
  /\ t.t0 = neg(TWO_INV)

\* 2^256 as a 33-byte little-endian buffer.
TwoTo256 == Zero32 \o << 1 >>

\* C11: a * ONE = a, a + ZERO = a and a * ZERO = ZERO, ONE being the limbs
\* of 2^256 mod q (the constant R) and ZERO having every limb zero.
IdentityLaws ==
  /\ op = "one_tests" =>
       /\ t.product = a
       /\ one = R
       /\ bytes_of_limbs(one) = RefMod(TwoTo256)
  /\ op = "zero_tests" =>
       /\ t.sum = a
       /\ t.product = zero
       /\ \A j \in 1..4 : zero[j] = ZeroWord

\* -1 times ONE.
IdentityLawsWitness ==
  /\ op = "one_tests"
  /\ a = NEGATIVE_ONE
  /\ t.product = NEGATIVE_ONE
  /\ opt.is_some

\* C12: double(a) is a + a and square(a) is a * a, limb for limb; the
\* element they give is twice the element of a, and its square, as
\* integers modulo q.
DoubleSquare ==
  /\ op = "random_doubling_tests" =>
       /\ t.dbl = t.sum
       /\ to_repr(t.dbl) = RefMod(RefTimes(to_repr(a), << 2 >>))
  /\ op = "random_squaring_tests" =>
       /\ t.sq = t.product
       /\ to_repr(t.sq) = RefMod(RefTimes(to_repr(a), to_repr(a)))

\* Doubling -1, whose limbs doubled pass q: the result is -2.
DoubleSquareWitness ==
  /\ op = "random_doubling_tests"
  /\ a = NEGATIVE_ONE
  /\ t.dbl = sub(NEGATIVE_ONE, one)
  /\ t.dbl # adc_limbs(a, a, 1, ZeroWord, << >>)[1]

\* C13: a^((q - 1) / 2) is ONE, the negation of ONE or ZERO and nothing
\* else: ZERO exactly for a = 0, ONE exactly for a nonzero a that has a
\* square root (every nonzero square among them), the negation of ONE
\* exactly for an a that has none (the generator times a nonzero square
\* among them); legendre is 0, 1, -1 accordingly and reads only that value.
LegendreValues ==
  /\ op = "test_legendre" =>
       /\ t.s \in {zero, one, NEGATIVE_ONE}
       /\ NEGATIVE_ONE = neg(one)
       /\ t.s = zero <=> a = zero
       /\ t.s = one <=> (a # zero /\ opt.is_some /\ mul(opt.value, opt.value) = a)
       /\ t.s = NEGATIVE_ONE <=> ~opt.is_some
       /\ (t.kind = "generator_times_square" /\ b # zero) => t.s = NEGATIVE_ONE
       /\ t.legendre = (IF t.s = one THEN 1 ELSE IF t.s = zero THEN 0 ELSE -1)
       /\ t.is_quad_non_res = (t.legendre = -1)
  /\ op = "test_sqrt" => t.legendre = (IF a = zero THEN 0 ELSE 1)

\* A non-residue that is not the generator itself: 3 * (1/2)^2.
LegendreValuesWitness ==
  /\ op = "test_legendre"
  /\ t.kind = "generator_times_square"
  /\ b = TWO_INV
  /\ t.s = NEGATIVE_ONE
  /\ t.legendre = -1
  /\ ~opt.is_some

\* C14: DELTA is MULTIPLICATIVE_GENERATOR raised to 2^S, S being the
\* declared 2-adicity exponent.
DeltaIsGeneratorPower ==
  op = "test_primefield_constants" =>
    DELTA = pow(MULTIPLICATIVE_GENERATOR, one_shl_S)

\* C15: ZETA is a primitive cube root of unity: ZETA * ZETA * ZETA is ONE
\* and ZETA * ZETA is not (nor, then, is ZETA).
ZetaCubeRoot ==
  op = "test_zeta" =>
    /\ t.zeta3 = one
    /\ t.zeta2 # one
    /\ a # one

\* The test ran on the constant, whose square is the other primitive cube
\* root: ZETA^2 = -(ZETA + 1).
ZetaCubeRootWitness ==
  /\ op = "test_zeta"
  /\ a = ZETA
  /\ t.zeta2 = neg(add(ZETA, one))
  /\ t.zeta2 # ZETA

\* C16: for limb values x = a * R mod q and y = b * R mod q below q,
\* mul(x, y) is below q and is the Montgomery form of a * b: multiplied by
\* 2^256 it is congruent to the integer product x * y, and its canonical
\* value is (a * b) mod q.  The modulus the sparse arithmetic is selected
\* for has the high bit of its top limb free.
MontgomeryMulCorrect ==
  op = "mul" =>
    /\ BelowModulus(GroupsOfLimbs(c))
    /\ RefMod(Zero32 \o bytes_of_limbs(c))
         = RefMod(RefTimes(bytes_of_limbs(a), bytes_of_limbs(b)))
    /\ to_repr(c) = RefMod(RefTimes(to_repr(a), to_repr(b)))
    /\ MODULUS[4][4] < 32768

\* The limbs q - 2 times -1: the four reduction passes leave q + 2, which
\* the final subtraction brings down to 2.
MontgomeryMulWitness ==
  /\ op = "mul"
  /\ a = limbs_of_bytes(AddAt(ModulusBytes, 0, -2))
  /\ b = NEGATIVE_ONE
  /\ c = << u64(0, 0, 0, 2), ZeroWord, ZeroWord, ZeroWord >>
  /\ reduced_before_subtraction(wide_product(a, b))
       = limbs_of_bytes(AddAt(ModulusBytes, 0, 2))

(***************************************************************************)
(* SpecSqrt: two calls of Fq::sqrt run side by side, one field operation   *)
(* at a time                                                               *)
(***************************************************************************)

\* A call of sqrt about to start: pc is the operation it performs next, i
\* the exponent bit pow's loop is at, res and tmp the locals of pow, flag
\* the Choice of ct_eq and out the CtOption returned.
sqrt_call(self) ==
  [self |-> self, pc |-> "pow_square", i |-> 64 * Len(SQRT_EXP) - 1,
   res |-> one, tmp |-> one, flag |-> FALSE, out |-> NoResult]

\* The operation a call performs next inside pow's loop:
\*   res = res.square(); tmp = res * self; res.conditional_assign(&tmp, bit)
\* for every bit of the exponent, most significant first; the loop hands
\* over to "square" after bit 0.
pow_next(run) ==
  IF run.pc = "pow_square" THEN [run EXCEPT !.res = square(run.res), !.pc = "pow_mul"]
  ELSE IF run.pc = "pow_mul"
    THEN [run EXCEPT !.tmp = mul(run.res, run.self), !.pc = "pow_select"]
  ELSE [run EXCEPT
          !.res = conditional_select(run.res, run.tmp, ExpBit(SQRT_EXP, run.i)),
          !.i = IF run.i = 0 THEN 0 ELSE run.i - 1,
          !.pc = IF run.i = 0 THEN "square" ELSE "pow_square"]

\* sqrt that returns at once for zero, without running the ladder.
sqrt_next_zero_shortcut(run) ==
  IF run.pc = "done" THEN run
  ELSE IF run.self = zero /\ run.pc # "new"
    THEN [run EXCEPT !.res = zero, !.flag = TRUE, !.pc = "new"]
  ELSE IF run.pc \in {"pow_square", "pow_mul", "pow_select"} THEN pow_next(run)
  ELSE IF run.pc = "square" THEN [run EXCEPT !.tmp = square(run.res), !.pc = "ct_eq"]
  ELSE IF run.pc = "ct_eq"
    THEN [run EXCEPT !.flag = (run.tmp = run.self), !.pc = "new"]
  ELSE [run EXCEPT !.out = CtOption(run.res, run.flag), !.pc = "done"]

\* The operation a call of sqrt performs next:
\*   let tmp = self.pow([..]);  CtOption::new(tmp, tmp.square().ct_eq(self))
sqrt_next(run) ==
  IF run.pc = "done" THEN run
  ELSE IF run.pc \in {"pow_square", "pow_mul", "pow_select"} THEN pow_next(run)
  ELSE IF run.pc = "square" THEN [run EXCEPT !.tmp = square(run.res), !.pc = "ct_eq"]
  ELSE IF run.pc = "ct_eq"
    THEN [run EXCEPT !.flag = (run.tmp = run.self), !.pc = "new"]
  ELSE [run EXCEPT !.out = CtOption(run.res, run.flag), !.pc = "done"]

\* What a trace records of a step: the operation and the exponent bit.
operation(run) == << run.pc, run.i >>

\* The inputs of the two calls: zero, a residue and a non-residue.
SqrtInputs == {zero, square(TWO_INV), MULTIPLICATIVE_GENERATOR}

StartSqrt ==
  /\ op = "sqrt"
  /\ n = 0
  /\ a \in {sqrt_call(x) : x \in SqrtInputs}
  /\ b \in {sqrt_call(y) : y \in SqrtInputs}
  /\ c = zero
  /\ d = zero
  /\ hist = << >>
  /\ opt = NoResult
  /\ buf = << >>
  /\ t = << >>

\* Each call that has not returned performs its next operation and records
\* it: hist is the trace of the first call, buf that of the second.
SqrtStep ==
  /\ ~(a.pc = "done" /\ b.pc = "done")
  /\ a' = sqrt_next(a)
  /\ b' = sqrt_next(b)
  /\ hist' = IF a.pc # "done" THEN Append(hist, operation(a)) ELSE hist
  /\ buf' = IF b.pc # "done" THEN Append(buf, operation(b)) ELSE buf
  /\ n' = n + 1
  /\ UNCHANGED << op, c, d, opt, t >>

NextSqrt == SqrtStep

SpecSqrt == StartSqrt /\ [][NextSqrt]_vars

\* The operations of one call: three per exponent bit, over all 256 bits,
\* then one squaring, one ct_eq and CtOption::new.
SqrtTraceLen == 3 * 64 * Len(SQRT_EXP) + 3

\* C17: two calls of sqrt, on any two inputs among zero, a residue and a
\* non-residue, have performed the same operations at every point; each
\* returns after three operations per bit of the 256-bit exponent, one
\* squaring of the candidate and one ct_eq, with the CtOption that sqrt
\* returns for its input - which is all the two calls may differ in.
SqrtSameTrace ==
  /\ hist = buf
  /\ a.pc = b.pc
  /\ a.pc = "done" =>
       /\ Len(hist) = SqrtTraceLen
       /\ hist[SqrtTraceLen - 2] = << "square", 0 >>
       /\ hist[SqrtTraceLen - 1] = << "ct_eq", 0 >>
       /\ \A k \in 0..(64 * Len(SQRT_EXP) - 1) :
            hist[3 * k + 1] = << "pow_square", 64 * Len(SQRT_EXP) - 1 - k >>
       /\ a.out = sqrt(a.self)
       /\ b.out = sqrt(b.self)

\* Both calls returned, zero with its root and the generator with none.
SqrtSameTraceWitness ==
  /\ a.pc = "done"
  /\ b.pc = "done"
  /\ a.self = zero
  /\ b.self = MULTIPLICATIVE_GENERATOR
  /\ a.out = CtOption(zero, TRUE)
  /\ ~b.out.is_some
  /\ Len(buf) = SqrtTraceLen

====
